---------------------------- MODULE Spec2Model ----------------------------
(***************************************************************************)
(* A model of the synthesizer modules of turian/torchsynth:                *)
(*   src/src/ddspdrum/parameter.py   Parameter                             *)
(*   src/src/ddspdrum/module.py      ADSR, VCO, VCA, SVF, FIR,             *)
(*                                   MovingAverage (numpy)                 *)
(*   src/torchsynth/module.py        TorchSynthModule, TorchADSR,          *)
(*                                   TorchVCO, TorchDrum (torch)           *)
(*                                                                         *)
(* Numbers.  A Python float is modelled as a rational <<n, d>> in lowest   *)
(* terms with d > 0.  The arithmetic of Parameter rounds each result to    *)
(* FloatBits significant bits, to nearest, ties to even, as IEEE 754       *)
(* arithmetic does with 53 bits; the signal computations of the other      *)
(* components are carried out exactly.  Durations are rationals in         *)
(* seconds, sample counts are integers.                                    *)
(***************************************************************************)
EXTENDS Integers, Sequences, FiniteSets, TLC

(***************************************************************************)
(* Exact rational arithmetic.                                              *)
(***************************************************************************)
RECURSIVE GCD(_, _)
GCD(a, b) ==
    IF b = 0 THEN a ELSE GCD(b, a % b)

Abs(n) ==
    IF n < 0 THEN -n ELSE n

\* the rational n/d (d # 0) in lowest terms with a positive denominator
Q(n, d) ==
    LET g == GCD(Abs(n), Abs(d))
        sgn == IF d < 0 THEN -1 ELSE 1
    IN  <<sgn * (n \div g), sgn * (d \div g)>>

QInt(n) ==
    <<n, 1>>

QZero ==
    <<0, 1>>

QOne ==
    <<1, 1>>

QAdd(x, y) ==
    Q(x[1] * y[2] + y[1] * x[2], x[2] * y[2])

QSub(x, y) ==
    Q(x[1] * y[2] - y[1] * x[2], x[2] * y[2])

QMul(x, y) ==
    Q(x[1] * y[1], x[2] * y[2])

\* x / y for y # 0
QDiv(x, y) ==
    Q(x[1] * y[2], x[2] * y[1])

QLe(x, y) ==
    x[1] * y[2] <= y[1] * x[2]

QLt(x, y) ==
    x[1] * y[2] < y[1] * x[2]

QMin(x, y) ==
    IF QLe(x, y) THEN x ELSE y

QMax(x, y) ==
    IF QLe(x, y) THEN y ELSE x

RECURSIVE IPow(_, _)
IPow(b, k) ==
    IF k = 0 THEN 1 ELSE b * IPow(b, k - 1)

\* x^k for a natural k; 0^0 = 1 as in numpy and torch
QPow(x, k) ==
    <<IPow(x[1], k), IPow(x[2], k)>>

\* floor of a rational (\div rounds towards minus infinity)
QFloor(x) ==
    x[1] \div x[2]

\* round half to even: Python's round() and torch.round()
QRound(x) ==
    LET f == QFloor(x)
        r2 == 2 * (x[1] - f * x[2])
    IN  IF r2 < x[2] THEN f
        ELSE IF r2 > x[2] THEN f + 1
        ELSE IF f % 2 = 0 THEN f ELSE f + 1

\* int(): truncation towards zero
QTrunc(x) ==
    IF x[1] >= 0 THEN QFloor(x) ELSE -QFloor(<<-x[1], x[2]>>)

\* np.clip(x, lo, hi) = minimum(maximum(x, lo), hi)
QClip(x, lo, hi) ==
    QMin(QMax(x, lo), hi)

(***************************************************************************)
(* Floating-point rounding.                                                *)
(***************************************************************************)
\* the significant bits of a float, scaled down from the 53 of a double
FloatBits == 3

\* 2^e for an integer e
QPow2(e) ==
    IF e >= 0 THEN QInt(IPow(2, e)) ELSE Q(1, IPow(2, -e))

\* for x > 0, the exponent e with 2^(FloatBits-1) <= x / 2^e < 2^FloatBits,
\* searched from e on
RECURSIVE FlExponent(_, _)
FlExponent(x, e) ==
    LET m == QDiv(x, QPow2(e))
    IN  IF QLe(QInt(IPow(2, FloatBits)), m) THEN FlExponent(x, e + 1)
        ELSE IF QLt(m, QInt(IPow(2, FloatBits - 1))) THEN FlExponent(x, e - 1)
        ELSE e

\* the float nearest to the real x, ties to the even significand
Fl(x) ==
    IF x = QZero THEN QZero
    ELSE LET a == <<Abs(x[1]), x[2]>>
             e == FlExponent(a, 0)
             m == QRound(QDiv(a, QPow2(e)))
         IN  QMul(QInt(IF x[1] < 0 THEN -m ELSE m), QPow2(e))

\* float addition, subtraction and multiplication
FAdd(x, y) ==
    Fl(QAdd(x, y))

FSub(x, y) ==
    Fl(QSub(x, y))

FMul(x, y) ==
    Fl(QMul(x, y))

\* float division, for y # 0
FDiv(x, y) ==
    Fl(QDiv(x, y))

\* for x > 0, the exponent e with 2^(FloatBits-1) <= r / 2^e < 2^FloatBits
\* for the k-th root r of x, searched from e on
RECURSIVE FlRootExponent(_, _, _)
FlRootExponent(x, k, e) ==
    IF QLe(QPow(QMul(QInt(IPow(2, FloatBits)), QPow2(e)), k), x)
    THEN FlRootExponent(x, k, e + 1)
    ELSE IF QLt(x, QPow(QMul(QInt(IPow(2, FloatBits - 1)), QPow2(e)), k))
    THEN FlRootExponent(x, k, e - 1)
    ELSE e

\* the float nearest to the k-th root of x >= 0, ties to the even significand
FlRoot(x, k) ==
    IF x = QZero THEN QZero
    ELSE LET e == FlRootExponent(x, k, 0)
             below(m) == QPow(QMul(Q(2 * m - 1, 2), QPow2(e)), k)
             above(m) == QPow(QMul(Q(2 * m + 1, 2), QPow2(e)), k)
             m == CHOOSE n \in IPow(2, FloatBits - 1)..IPow(2, FloatBits) :
                      /\ IF n % 2 = 0 THEN QLe(below(n), x) ELSE QLt(below(n), x)
                      /\ IF n % 2 = 0 THEN QLe(x, above(n)) ELSE QLt(x, above(n))
         IN  QMul(QInt(m), QPow2(e))

(***************************************************************************)
(* Frequencies and phases.  midi_to_hz yields 440 * 2^e for a rational e,  *)
(* which is irrational in general.  Such values and their sums are kept    *)
(* exactly as a set of pairs <<f, c>>, standing for the sum of c * 2^f     *)
(* over the pairs, with f a rational in [0, 1), and c a non-zero rational  *)
(* (the powers 2^f for distinct f in [0, 1) are linearly independent over  *)
(* the rationals, so two values are equal iff their sets are equal).       *)
(* A phase is counted in turns: the phase in radians divided by 2*pi.      *)
(***************************************************************************)
AZero ==
    {}

ACoef(x, f) ==
    IF \E t \in x : t[1] = f THEN (CHOOSE t \in x : t[1] = f)[2] ELSE QZero

AAdd(x, y) ==
    LET fs == {t[1] : t \in x \cup y}
    IN  {<<f, QAdd(ACoef(x, f), ACoef(y, f))>> :
            f \in {g \in fs : QAdd(ACoef(x, g), ACoef(y, g)) # QZero}}

\* q * x for a rational q
AScale(q, x) ==
    IF q = QZero THEN AZero ELSE {<<t[1], QMul(q, t[2])>> : t \in x}

\* the rational q as such a value
ARat(q) ==
    IF q = QZero THEN AZero ELSE {<<QZero, q>>}

\* 2^e for a rational e
APow2(e) ==
    LET k == QFloor(e)
        f == QSub(e, QInt(k))
        c == IF k >= 0 THEN QInt(IPow(2, k)) ELSE Q(1, IPow(2, -k))
    IN  {<<f, c>>}

\* np.cumsum / torch.cumsum
RECURSIVE ACumSum(_)
ACumSum(xs) ==
    IF xs = <<>> THEN <<>>
    ELSE LET head == ACumSum(SubSeq(xs, 1, Len(xs) - 1))
         IN  Append(head,
                    IF head = <<>> THEN xs[Len(xs)]
                    ELSE AAdd(head[Len(head)], xs[Len(xs)]))

(***************************************************************************)
(* State.                                                                  *)
(***************************************************************************)
VARIABLES
    param,        \* the Parameter object: value, minimum, maximum, scale
    param_made,   \* whether Parameter.__init__ has run
    param_call,   \* history: the last Parameter method called and its argument
    vco,          \* the oscillator object: its configuration and self.phase
    vco_ret,      \* how the last oscillator call ended and what it computed:
                  \* the phase increments summed, the phase arguments, the audio
    vco_call,     \* history: the last oscillator call's arguments
    adsr,         \* the envelope generator object: its configuration
    adsr_ret,     \* the last envelope call: its argument, outcome and result
    svf,          \* the state variable filter object: its configuration
    svf_ret,      \* the last filter call: its arguments, outcome and output
    svf_log,      \* the filter calls made so far, in order
    modules,      \* the torch module objects: each one's parameters and phase
    drums,        \* the TorchDrum objects: the modules each one refers to
    drum_call,    \* history: the last TorchDrum operation and its target
    vca_ret,      \* the last amplifier call: its arguments, outcome and output
    fir,          \* the FIR or MovingAverage object: its configuration
    fir_ret,      \* the last FIR filter call: its argument, outcome and output
    tmod,         \* a TorchSynthModule object: its kind, buffer_size and the
                  \* configuration of the TorchADSR or TorchSineVCO it is
    fwd_ret       \* the last forward call on tmod: its outcome, what _forward
                  \* returned and what forward returned

paramVars == <<param, param_made, param_call>>

vcoVars == <<vco, vco_ret, vco_call>>

adsrVars == <<adsr, adsr_ret>>

svfVars == <<svf, svf_ret, svf_log>>

drumVars == <<modules, drums, drum_call>>

vcaVars == <<vca_ret>>
firVars == <<fir, fir_ret>>
forwardVars == <<tmod, fwd_ret>>

vars == <<paramVars, vcoVars, adsrVars, svfVars, drumVars, vcaVars, firVars, forwardVars>>

(***************************************************************************)
(* Rates.  SAMPLE_RATE and CONTROL_RATE are imported from the defaults     *)
(* module; they are scaled down here, keeping SAMPLE_RATE a multiple of    *)
(* CONTROL_RATE.                                                           *)
(***************************************************************************)
SAMPLE_RATE == 8

CONTROL_RATE == 4

\* BUFFER_SIZE of the defaults module, scaled down
BUFFER_SIZE == 4

(***************************************************************************)
(* Parameter (src/src/ddspdrum/parameter.py).                              *)
(***************************************************************************)
\* bounds of the inputs tried
ParamMaxAbs == 8

ParamValueMaxNum == 6

\* minimum and maximum: integers, small ones and one of large magnitude
ParamBounds ==
    {QInt(-ParamMaxAbs), QInt(-2), QZero, QOne, QInt(3)}

\* value and new_value of set_value: halves, inside and outside the range
ParamValues ==
    {Q(k, 2) : k \in -ParamValueMaxNum..ParamValueMaxNum}

\* new_value of set_value_0to1: inside and outside [0, 1]; squares, so that
\* the square root taken for scale = 2 is rational
ParamUnitValues ==
    {QInt(-1), QZero, Q(1, 16), Q(1, 4), QOne, QInt(4)}

\* scale: linear, exponential, logarithmic, and a negative one
ParamScales ==
    {QOne, QInt(2), Q(1, 2), QInt(-1)}

\* np.exp2(np.log2(u) / scale) = u^(1/scale), for u > 0 and scale = p/q # 0
Exp2Log2Div(u, scale) ==
    IF scale[1] > 0 THEN FlRoot(QPow(u, scale[2]), scale[1])
    ELSE FlRoot(QPow(QDiv(QOne, u), scale[2]), -scale[1])

\* what get_value_0to1 returns: a number, or nan or inf where it divides by 0
NoReturn ==
    [kind |-> "none", value |-> QZero]

NoParam ==
    [value |-> QZero, minimum |-> QZero, maximum |-> QZero, scale |-> QOne]

ParamIdle ==
    /\ param = NoParam
    /\ param_made = FALSE
    /\ param_call = [op |-> "none", arg |-> QZero, ret |-> NoReturn,
                     origin |-> QZero, round_trip |-> FALSE]

\* Parameter.__init__
ParameterInit(value, minimum, maximum, scale) ==
    /\ ~param_made
    /\ param' = [value |-> QClip(value, minimum, maximum),
                 minimum |-> minimum,
                 maximum |-> maximum,
                 scale |-> scale]
    /\ param_made' = TRUE
    /\ param_call' = [op |-> "__init__", arg |-> value, ret |-> NoReturn,
                      origin |-> QZero, round_trip |-> FALSE]

\* the value set_value stores
SetValueResult(p, new_value) ==
    QClip(new_value, p.minimum, p.maximum)

\* Parameter.set_value
set_value(new_value) ==
    /\ param_made
    /\ param' = [param EXCEPT !.value = SetValueResult(param, new_value)]
    /\ param_call' = [op |-> "set_value", arg |-> new_value, ret |-> NoReturn,
                      origin |-> QZero, round_trip |-> FALSE]
    /\ UNCHANGED param_made

\* the value set_value_0to1 stores
SetValue0to1Result(p, new_value) ==
    LET clipped == QClip(new_value, QZero, QOne)
        warped == IF clipped # QZero /\ p.scale # QOne
                  THEN Exp2Log2Div(clipped, p.scale)
                  ELSE clipped
    IN  FAdd(p.minimum, FMul(FSub(p.maximum, p.minimum), warped))

\* Parameter.set_value_0to1; round_trip tells that new_value is what
\* get_value_0to1 has just returned for the value origin
set_value_0to1(new_value) ==
    /\ param_made
    /\ param' = [param EXCEPT !.value = SetValue0to1Result(param, new_value)]
    /\ param_call' = [op |-> "set_value_0to1", arg |-> new_value,
                      ret |-> NoReturn, origin |-> param_call.origin,
                      round_trip |-> /\ param_call.op = "get_value_0to1"
                                     /\ param_call.ret.kind = "value"
                                     /\ param_call.ret.value = new_value]
    /\ UNCHANGED param_made

\* a slip: the minimum is not subtracted
GetValue0to1Numerator_NoOffset(p) ==
    p.value

\* get_value_0to1 line 77: self.value - self.minimum
GetValue0to1Numerator(p) ==
    FSub(p.value, p.minimum)

\* np.power(value, scale), scale = p/q # 0
NpPower(value, scale) ==
    IF QLt(value, QZero) /\ scale[2] # 1 THEN [kind |-> "nan", value |-> QZero]
    ELSE IF value = QZero /\ scale[1] < 0 THEN [kind |-> "inf", value |-> QZero]
    ELSE LET base == IF scale[1] > 0 THEN value ELSE QDiv(QOne, value)
         IN  [kind |-> "value",
              value |-> IF QLt(value, QZero)
                        THEN Fl(QPow(base, Abs(scale[1])))
                        ELSE FlRoot(QPow(base, Abs(scale[1])), scale[2])]

\* what get_value_0to1 returns
GetValue0to1Result(p) ==
    LET num == GetValue0to1Numerator(p)
        den == FSub(p.maximum, p.minimum)
    IN  IF den = QZero
        THEN [kind |-> IF num = QZero THEN "nan" ELSE "inf", value |-> QZero]
        ELSE IF p.scale # QOne THEN NpPower(FDiv(num, den), p.scale)
        ELSE [kind |-> "value", value |-> FDiv(num, den)]

\* Parameter.get_value_0to1
get_value_0to1 ==
    /\ param_made
    /\ param_call' = [op |-> "get_value_0to1", arg |-> QZero,
                      ret |-> GetValue0to1Result(param),
                      origin |-> param.value, round_trip |-> FALSE]
    /\ UNCHANGED <<param, param_made>>

\* the numbers a caller has got from get_value_0to1 and may hand back
ParamReturned ==
    IF param_call.ret.kind = "value" THEN {param_call.ret.value} ELSE {}

(***************************************************************************)
(* Oscillators: VCO (src/src/ddspdrum/module.py) and TorchVCO              *)
(* (src/torchsynth/module.py).  vco.impl tells which of the two it is.     *)
(***************************************************************************)
\* bound of the calls tried: a call costs the length of its modulation
\* signal plus one, and the calls made cost at most MaxVCOWork together
MaxVCOWork == 4

\* elements of a modulation signal: inside [0, 1], inside [-1, 0), outside
ModValues ==
    {QInt(-1), QZero, QOne, QInt(2)}

ModSignals ==
    UNION {[1..n -> ModValues] : n \in 0..(MaxVCOWork - 1)}

\* SynthModule.midi_to_hz, util.midi_to_hz: 440 * 2^((midi - 69) / 12)
midi_to_hz(midi) ==
    AScale(QInt(440), APow2(QDiv(QSub(midi, QInt(69)), QInt(12))))

\* scipy.signal.resample(control, num): an external routine, here a
\* zero-order hold that keeps its contract on the length of the result
resample(control, num) ==
    [i \in 1..num |-> control[((i - 1) * Len(control)) \div num + 1]]

\* SynthModule.control_to_sample_rate
control_to_sample_rate(m, control) ==
    IF m.control_rate = m.sample_rate THEN control
    ELSE resample(control,
                  QRound(Q(Len(control) * m.sample_rate, m.control_rate)))

\* VCO.__call__ lines 242-243, TorchVCO.make_control_as_frequency
make_control_as_frequency(v, mod_signal) ==
    [i \in 1..Len(mod_signal) |->
        midi_to_hz(QAdd(QMul(v.mod_depth, mod_signal[i]), v.midi_f0))]

\* the phase increments, in turns, that make_argument sums up
PhaseIncrements(v, control_as_frequency) ==
    LET up_sampled == IF v.impl = "np"
                      THEN control_to_sample_rate(v, control_as_frequency)
                      ELSE control_as_frequency
    IN  [i \in 1..Len(up_sampled) |-> AScale(Q(1, SAMPLE_RATE), up_sampled[i])]

\* VCO.make_argument, TorchVCO.make_argument
make_argument(v, control_as_frequency) ==
    ACumSum(PhaseIncrements(v, control_as_frequency))

\* a slip: the integration also starts from the stored phase
CosineArgument_FromState(v, mod_signal, phase) ==
    LET argument == make_argument(v, make_control_as_frequency(v, mod_signal))
    IN  [i \in 1..Len(argument) |-> AAdd(AAdd(argument[i], phase), v.phase)]

\* cosine_argument of VCO.__call__ and of TorchVCO._forward
CosineArgument(v, mod_signal, phase) ==
    LET argument == make_argument(v, make_control_as_frequency(v, mod_signal))
    IN  [i \in 1..Len(argument) |-> AAdd(argument[i], phase)]

\* a slip: the modulation signal is not checked
ModInRange_Unchecked(v, mod_signal) ==
    TRUE

\* the assertion on the modulation signal: [0, 1] in VCO, [-1, 1] in TorchVCO
ModInRange(v, mod_signal) ==
    LET lo == IF v.impl = "np" THEN QZero ELSE QInt(-1)
    IN  \A i \in 1..Len(mod_signal) :
            QLe(lo, mod_signal[i]) /\ QLe(mod_signal[i], QOne)

\* np.cos / TorchSineVCO.oscillator, applied to each phase argument
Oscillator(argument) ==
    [i \in 1..Len(argument) |-> <<"cos", argument[i]>>]

NoVCORet ==
    [status |-> "none", increments |-> <<>>, cosine_argument |-> <<>>,
     audio |-> <<>>]

VCOIdle ==
    /\ vco = [impl |-> "np", midi_f0 |-> QInt(69), mod_depth |-> QOne,
              phase |-> AZero, sample_rate |-> SAMPLE_RATE,
              control_rate |-> CONTROL_RATE]
    /\ vco_ret = NoVCORet
    /\ vco_call = [mod_signal |-> <<>>, phase |-> AZero,
                   phase_before |-> AZero, work |-> 0, ok_before |-> FALSE,
                   phase_init |-> AZero, log |-> <<>>]

\* the sample rates an oscillator is constructed with: VCO.__init__ takes
\* none and keeps the default, TorchVCO.__init__ takes sample_rate
VCOSampleRates(impl) ==
    IF impl = "np" THEN {SAMPLE_RATE} ELSE {SAMPLE_RATE, 2 * SAMPLE_RATE}

\* the state after VCO.__init__ / TorchVCO.__init__
VCOInit ==
    /\ \E impl \in {"np", "torch"}, depth \in {QOne, QInt(12)},
          phase \in {AZero, ARat(Q(1, 4))} :
           \E sample_rate \in VCOSampleRates(impl) :
               vco = [impl |-> impl, midi_f0 |-> QInt(69), mod_depth |-> depth,
                      phase |-> phase, sample_rate |-> sample_rate,
                      control_rate |-> CONTROL_RATE]
    /\ vco_ret = NoVCORet
    /\ vco_call = [mod_signal |-> <<>>, phase |-> AZero,
                   phase_before |-> vco.phase, work |-> 0, ok_before |-> FALSE,
                   phase_init |-> vco.phase, log |-> <<>>]

\* a slip: the first phase argument is stored
LastArgument_First(argument) ==
    argument[1]

\* cosine_argument[-1], which a call stores in self.phase
LastArgument(argument) ==
    argument[Len(argument)]

\* the phase arguments a caller passes: none, the stored phase, a quarter turn
PhaseArguments(v) ==
    {AZero, v.phase, ARat(Q(1, 4))}

\* VCO.__call__, TorchVCO._forward.  An empty cosine_argument has no last
\* element (IndexError); in VCO the resampling routine, which is not part of
\* this repository, is handed the empty signal first and may raise itself
VCOCall(mod_signal, phase) ==
    LET argument == CosineArgument(vco, mod_signal, phase)
        outcomes == IF ~ModInRange(vco, mod_signal) THEN {"AssertionError"}
                    ELSE IF argument # <<>> THEN {"ok"}
                    ELSE IF vco.impl = "np" THEN {"IndexError", "ValueError"}
                    ELSE {"IndexError"}
    IN  /\ vco_call.work + Len(mod_signal) + 1 <= MaxVCOWork
        /\ \E status \in outcomes :
               /\ vco_call' =
                      [mod_signal |-> mod_signal, phase |-> phase,
                       phase_before |-> vco.phase,
                       work |-> vco_call.work + Len(mod_signal) + 1,
                       ok_before |-> vco_call.ok_before \/ vco_ret.status = "ok",
                       phase_init |-> vco_call.phase_init,
                       log |-> Append(vco_call.log,
                                      [status |-> status,
                                       final |-> IF status = "ok"
                                                 THEN argument[Len(argument)]
                                                 ELSE AZero])]
               /\ IF status = "ok"
                  THEN /\ vco' = [vco EXCEPT !.phase = LastArgument(argument)]
                       /\ vco_ret' = [status |-> "ok",
                                      increments |-> PhaseIncrements(
                                          vco,
                                          make_control_as_frequency(vco, mod_signal)),
                                      cosine_argument |-> argument,
                                      audio |-> Oscillator(argument)]
                  ELSE /\ vco_ret' = [NoVCORet EXCEPT !.status = status]
                       /\ UNCHANGED vco

(***************************************************************************)
(* Envelope generators: ADSR (src/src/ddspdrum/module.py) and TorchADSR    *)
(* (src/torchsynth/module.py).  adsr.impl tells which of the two it is;    *)
(* adsr.rate is self.control_rate of an ADSR and self.sample_rate of a     *)
(* TorchADSR; adsr.alpha is a natural number.                              *)
(***************************************************************************)
\* bound of the call arguments tried: durations of k/16 s, k <= MaxArgTicks
MaxArgTicks == 16

\* a, d, r of the envelopes tried: none, 3/16 s, 1/2 s
ADSRDurations ==
    {QZero, Q(3, 16), Q(1, 2)}

ADSRLevels ==
    {QZero, Q(1, 2), QOne}

\* call arguments: durations from -1/16 s up
ArgDurations ==
    {Q(k, 16) : k \in -1..MaxArgTicks}

Reverse(xs) ==
    [i \in 1..Len(xs) |-> xs[Len(xs) + 1 - i]]

\* ADSR._ramp: (t / duration) ** alpha over
\* t = linspace(0, duration, int(round(duration * control_rate)), endpoint=False)
ADSR_ramp(e, duration) ==
    LET num == QRound(QMul(duration, QInt(e.rate)))
    IN  [i \in 1..num |->
            LET t == QMul(QInt(i - 1), QDiv(duration, QInt(num)))
            IN  QPow(QDiv(t, duration), e.alpha)]

\* ADSR.attack
ADSR_attack(e) ==
    ADSR_ramp(e, e.a)

\* ADSR.decay
ADSR_decay(e) ==
    LET ramp == Reverse(ADSR_ramp(e, e.d))
    IN  [i \in 1..Len(ramp) |-> QAdd(QMul(ramp[i], QSub(QOne, e.s)), e.s)]

\* the length of ADSR.sustain: round(int(duration * CONTROL_RATE))
ADSR_sustain_length(duration) ==
    QRound(QInt(QTrunc(QMul(duration, QInt(CONTROL_RATE)))))

\* ADSR.sustain
ADSR_sustain(e, duration) ==
    [i \in 1..ADSR_sustain_length(duration) |-> e.s]

\* ADSR.release
ADSR_release(e) ==
    LET ramp == Reverse(ADSR_ramp(e, e.r))
    IN  [i \in 1..Len(ramp) |-> QMul(ramp[i], e.s)]

\* a slip: the decay is left out
ADSR_note_on_NoDecay(e) ==
    ADSR_attack(e)

\* ADSR.note_on
ADSR_note_on(e) ==
    ADSR_attack(e) \o ADSR_decay(e)

\* ADSR.note_off
ADSR_note_off(e) ==
    ADSR_release(e)

\* the envelope ADSR.__call__ returns for sustain_duration >= 0
ADSR_call(e, sustain_duration) ==
    ADSR_note_on(e) \o ADSR_sustain(e, sustain_duration) \o ADSR_note_off(e)

\* a slip: rounds down
seconds_to_samples_Floor(e, seconds) ==
    QFloor(QMul(seconds, QInt(e.rate)))

\* TorchSynthModule.seconds_to_samples
seconds_to_samples(e, seconds) ==
    QRound(QMul(seconds, QInt(e.rate)))

\* TorchADSR._ramp
TorchADSR_ramp(e, duration, inverse) ==
    [i \in 1..seconds_to_samples(e, duration) |->
        LET ramp == QDiv(QMul(QInt(i - 1), QDiv(QOne, duration)), QInt(e.rate))
        IN  QPow(IF inverse THEN QSub(QOne, ramp) ELSE ramp, e.alpha)]

\* TorchADSR.attack
TorchADSR_attack(e) ==
    TorchADSR_ramp(e, e.a, FALSE)

\* a slip: the decay is shifted by the sustain level but not scaled
TorchADSR_decay_Unscaled(e) ==
    LET decay == TorchADSR_ramp(e, e.d, TRUE)
    IN  [i \in 1..Len(decay) |-> QAdd(decay[i], e.s)]

\* TorchADSR.decay
TorchADSR_decay(e) ==
    LET decay == TorchADSR_ramp(e, e.d, TRUE)
    IN  [i \in 1..Len(decay) |-> QAdd(QMul(decay[i], QSub(QOne, e.s)), e.s)]

\* TorchADSR.release
TorchADSR_release(e) ==
    TorchADSR_ramp(e, e.r, TRUE)

\* a slip: a short attack-and-decay is not extended by the sustain level
TorchADSR_note_on_NoHold(e, num_samples) ==
    LET out_ == TorchADSR_attack(e) \o TorchADSR_decay(e)
    IN  IF num_samples <= Len(out_) THEN SubSeq(out_, 1, num_samples) ELSE out_

\* TorchADSR.note_on
TorchADSR_note_on(e, num_samples) ==
    LET out_ == TorchADSR_attack(e) \o TorchADSR_decay(e)
    IN  IF num_samples <= Len(out_)
        THEN SubSeq(out_, 1, num_samples)
        ELSE out_ \o [i \in 1..(num_samples - Len(out_)) |-> QMul(QOne, e.s)]

\* a slip: the release is the reversed ramp
TorchADSR_note_off_Reversed(e, last_val) ==
    LET release == Reverse(TorchADSR_ramp(e, e.r, FALSE))
    IN  [i \in 1..Len(release) |-> QMul(release[i], last_val)]

\* TorchADSR.note_off
TorchADSR_note_off(e, last_val) ==
    LET release == TorchADSR_release(e)
    IN  [i \in 1..Len(release) |-> QMul(release[i], last_val)]

NoADSRRet ==
    [op |-> "none", arg |-> QZero, status |-> "none",
     env |-> <<>>, ADS |-> <<>>, R |-> <<>>]

ADSRIdle ==
    /\ adsr = [impl |-> "np", a |-> QZero, d |-> QZero, s |-> QZero,
               r |-> QZero, alpha |-> 1, rate |-> CONTROL_RATE]
    /\ adsr_ret = NoADSRRet

\* the state after ADSR.__init__ / TorchADSR.__init__ with valid arguments
ADSRInit ==
    /\ \E a \in ADSRDurations, d \in ADSRDurations, r \in ADSRDurations,
          s \in ADSRLevels,
          k \in {<<"np", CONTROL_RATE, 0>>, <<"np", CONTROL_RATE, 1>>,
                 <<"np", CONTROL_RATE, 2>>,
                 <<"torch", CONTROL_RATE, 1>>, <<"torch", CONTROL_RATE, 2>>,
                 <<"torch", SAMPLE_RATE, 1>>, <<"torch", SAMPLE_RATE, 2>>} :
           adsr = [impl |-> k[1], a |-> a, d |-> d, s |-> s, r |-> r,
                   alpha |-> k[3], rate |-> k[2]]
    /\ adsr_ret = NoADSRRet

\* ADSR.__call__
ADSRCall(sustain_duration) ==
    /\ adsr.impl = "np"
    /\ adsr_ret.op = "none"
    /\ adsr_ret' =
           IF QLe(QZero, sustain_duration)
           THEN [NoADSRRet EXCEPT !.op = "__call__", !.arg = sustain_duration,
                                  !.status = "ok",
                                  !.env = ADSR_call(adsr, sustain_duration)]
           ELSE [NoADSRRet EXCEPT !.op = "__call__", !.arg = sustain_duration,
                                  !.status = "AssertionError"]
    /\ UNCHANGED adsr

\* a call of ADSR.sustain with duration >= 0
ADSRSustainCall(duration) ==
    /\ adsr.impl = "np"
    /\ adsr_ret.op = "none"
    /\ QLe(QZero, duration)
    /\ adsr_ret' = [NoADSRRet EXCEPT !.op = "sustain", !.arg = duration,
                                     !.status = "ok",
                                     !.env = ADSR_sustain(adsr, duration)]
    /\ UNCHANGED adsr

\* a call of ADSR._ramp or TorchADSR._ramp with duration >= 0
ADSRRampCall(duration) ==
    /\ adsr_ret.op = "none"
    /\ QLe(QZero, duration)
    /\ adsr_ret' = [NoADSRRet EXCEPT
                        !.op = "_ramp", !.arg = duration, !.status = "ok",
                        !.env = IF adsr.impl = "np"
                                THEN ADSR_ramp(adsr, duration)
                                ELSE TorchADSR_ramp(adsr, duration, FALSE)]
    /\ UNCHANGED adsr

\* TorchADSR._forward
TorchADSRForward(note_on_duration) ==
    LET num_samples == seconds_to_samples(adsr, note_on_duration)
        ADS == TorchADSR_note_on(adsr, num_samples)
        R == TorchADSR_note_off(adsr, ADS[Len(ADS)])
        ret == [NoADSRRet EXCEPT !.op = "_forward", !.arg = note_on_duration]
    IN  /\ adsr.impl = "torch"
        /\ adsr_ret.op = "none"
        /\ adsr_ret' =
               IF ~QLt(QZero, note_on_duration)
               THEN [ret EXCEPT !.status = "AssertionError"]
               ELSE IF ADS = <<>>
               THEN [ret EXCEPT !.status = "IndexError", !.ADS = ADS]
               ELSE [ret EXCEPT !.status = "ok", !.ADS = ADS, !.R = R,
                                !.env = ADS \o R]
        /\ UNCHANGED adsr

(***************************************************************************)
(* The state variable filter SVF (src/src/ddspdrum/module.py).  The        *)
(* cutoffs tried are multiples of a quarter of the sample rate, where the  *)
(* tangent of calculate_coefficients is rational.                          *)
(***************************************************************************)
\* bound of the calls tried: the length of the audio and of the modulation
MaxAudioLen == 2

SVFAudioValues ==
    {QZero, QOne}

\* elements of a cutoff modulation signal, in Hz for an amount of 1
SVFModValues ==
    {QZero, QInt(-2), QInt(4)}

SVFAmounts ==
    {QZero, QOne}

SVFAudios ==
    UNION {[1..n -> SVFAudioValues] : n \in 0..MaxAudioLen}

\* cutoff_mod: None (given = FALSE), or a sequence
SVFCutoffMods ==
    {[given |-> FALSE, seq |-> <<>>]}
    \cup {[given |-> TRUE, seq |-> m] :
             m \in UNION {[1..n -> SVFModValues] : n \in 0..MaxAudioLen}}

\* np.tan(np.pi * x) at the multiples of 1/4 where it is finite
TanPi(x) ==
    LET r == QSub(x, QInt(QFloor(x)))
    IN  CASE r = QZero -> QZero
          [] r = Q(1, 4) -> QOne
          [] r = Q(3, 4) -> QInt(-1)

\* SVF.calculate_coefficients: <<coeff0, coeff1, rho>>
calculate_coefficients(f, cutoff) ==
    LET g == TanPi(QDiv(cutoff, QInt(f.sample_rate)))
        R == IF f.self_oscillate THEN QZero
             ELSE QDiv(QOne, QMul(QInt(2), f.resonance))
        coeff0 == QDiv(QOne, QAdd(QAdd(QOne, QMul(QMul(QInt(2), R), g)),
                                  QMul(g, g)))
    IN  <<coeff0, g, QAdd(QMul(QInt(2), R), g)>>

\* a slip: the modulation is applied, and its length checked, for amount 0 too
SVF_apply_modulation_AnyAmount(cutoff_mod, cutoff_mod_amount) ==
    cutoff_mod.given

\* SVF.__call__ line 315: whether the cutoff modulation is applied
SVF_apply_modulation(cutoff_mod, cutoff_mod_amount) ==
    cutoff_mod.given /\ cutoff_mod_amount # QZero

\* SVF.__call__ lines 321-346: the processing loop from sample i on,
\* with the feedback samples h and the output y so far
RECURSIVE SVF_loop(_, _, _, _, _, _, _)
SVF_loop(f, audio, cutoff_mod, cutoff_mod_amount, i, h, y) ==
    IF i > Len(audio) THEN y
    ELSE LET c == IF SVF_apply_modulation(cutoff_mod, cutoff_mod_amount)
                  THEN calculate_coefficients(
                           f, QAdd(f.cutoff, QMul(cutoff_mod.seq[i],
                                                  cutoff_mod_amount)))
                  ELSE calculate_coefficients(f, f.cutoff)
             hpf == QMul(c[1], QSub(QSub(audio[i], QMul(c[3], h[1])), h[2]))
             bpf == QAdd(QMul(c[2], hpf), h[1])
             lpf == QAdd(QMul(c[2], bpf), h[2])
             out == CASE f.mode = "LPF" -> lpf
                      [] f.mode = "BPF" -> bpf
                      [] f.mode = "BSF" -> QAdd(hpf, lpf)
                      [] OTHER -> hpf
         IN  SVF_loop(f, audio, cutoff_mod, cutoff_mod_amount, i + 1,
                      <<QAdd(QMul(c[2], hpf), bpf), QAdd(QMul(c[2], bpf), lpf)>>,
                      Append(y, out))

\* SVF.__call__ lines 321-337: the feedback samples h after the processing
\* loop from sample i on
RECURSIVE SVF_feedback(_, _, _, _, _, _)
SVF_feedback(f, audio, cutoff_mod, cutoff_mod_amount, i, h) ==
    IF i > Len(audio) THEN h
    ELSE LET c == IF SVF_apply_modulation(cutoff_mod, cutoff_mod_amount)
                  THEN calculate_coefficients(
                           f, QAdd(f.cutoff, QMul(cutoff_mod.seq[i],
                                                  cutoff_mod_amount)))
                  ELSE calculate_coefficients(f, f.cutoff)
             hpf == QMul(c[1], QSub(QSub(audio[i], QMul(c[3], h[1])), h[2]))
             bpf == QAdd(QMul(c[2], hpf), h[1])
             lpf == QAdd(QMul(c[2], bpf), h[2])
         IN  SVF_feedback(f, audio, cutoff_mod, cutoff_mod_amount, i + 1,
                          <<QAdd(QMul(c[2], hpf), bpf),
                            QAdd(QMul(c[2], bpf), lpf)>>)

\* a slip: the feedback samples are kept from the call before
SVF_initial_feedback_Kept(last) ==
    last.h

\* SVF.__call__ line 307, h = np.zeros(2): the feedback samples a call
\* starts from, whatever the call before (last) has left in its own h
SVF_initial_feedback(last) ==
    <<QZero, QZero>>

\* bound of the number of calls made in a sequence of calls on one filter
MaxSVFCalls == 3

\* the calls tried in a sequence of calls: <<audio, cutoff_mod, amount>>
SVFProbes ==
    {<<<<>>, [given |-> FALSE, seq |-> <<>>], QZero>>,
     <<<<QOne>>, [given |-> FALSE, seq |-> <<>>], QZero>>,
     <<<<QOne, QZero>>, [given |-> FALSE, seq |-> <<>>], QZero>>,
     <<<<QOne, QOne>>, [given |-> TRUE, seq |-> <<QInt(4), QZero>>], QOne>>,
     <<<<QOne>>, [given |-> TRUE, seq |-> <<>>], QOne>>}

NoSVFRet ==
    [status |-> "none", audio |-> <<>>,
     cutoff_mod |-> [given |-> FALSE, seq |-> <<>>],
     cutoff_mod_amount |-> QZero, y |-> <<>>, h |-> <<QZero, QZero>>]

SVFIdle ==
    /\ svf = [mode |-> "LPF", cutoff |-> QInt(2), resonance |-> QOne,
              self_oscillate |-> FALSE, sample_rate |-> SAMPLE_RATE]
    /\ svf_ret = NoSVFRet
    /\ svf_log = <<>>

\* the state after SVF.__init__: a cutoff of a quarter of the sample rate
SVFInit ==
    /\ \E mode \in {"LPF", "BPF", "BSF", "HPF"}, self_oscillate \in BOOLEAN :
           svf = [mode |-> mode, cutoff |-> Q(SAMPLE_RATE, 4),
                  resonance |-> QOne, self_oscillate |-> self_oscillate,
                  sample_rate |-> SAMPLE_RATE]
    /\ svf_ret = NoSVFRet
    /\ svf_log = <<>>

\* SVF.__call__, after max_calls calls at most
SVFCall(audio, cutoff_mod, cutoff_mod_amount, max_calls) ==
    LET ret == [NoSVFRet EXCEPT !.audio = audio, !.cutoff_mod = cutoff_mod,
                                !.cutoff_mod_amount = cutoff_mod_amount]
        h == SVF_initial_feedback(svf_ret)
    IN  /\ Len(svf_log) < max_calls
        /\ svf_ret' =
               IF /\ SVF_apply_modulation(cutoff_mod, cutoff_mod_amount)
                  /\ Len(cutoff_mod.seq) # Len(audio)
               THEN [ret EXCEPT !.status = "AssertionError", !.h = h]
               ELSE [ret EXCEPT !.status = "ok",
                                !.y = SVF_loop(svf, audio, cutoff_mod,
                                               cutoff_mod_amount, 1, h, <<>>),
                                !.h = SVF_feedback(svf, audio, cutoff_mod,
                                                   cutoff_mod_amount, 1, h)]
        /\ svf_log' = Append(svf_log, svf_ret')
        /\ UNCHANGED svf

(***************************************************************************)
(* TorchSynth and TorchDrum (src/torchsynth/module.py).  A module object   *)
(* is named <<owner, slot>>: owner 0 for the objects that are the default  *)
(* values of TorchDrum.__init__'s arguments, made once when the class is   *)
(* defined, and owner k for the objects a caller makes for drum k.  A      *)
(* parameter is kept as the value p() returns for it.                      *)
(***************************************************************************)
Drums ==
    {1, 2}

Slots ==
    {"pitch_adsr", "amp_adsr", "vco_1", "vco_2", "noise", "vca"}

ModuleIds ==
    ((Drums \cup {0}) \X Slots) \cup (Drums \X {"global_params"})

\* the parameters each module is made with, when no argument is given
DefaultParams(slot) ==
    CASE slot \in {"pitch_adsr", "amp_adsr"} ->
             [attack |-> Q(1, 4), decay |-> Q(1, 4), sustain |-> Q(1, 2),
              release |-> Q(1, 2), alpha |-> 3]
      [] slot = "vco_1" -> [pitch |-> QInt(10), mod_depth |-> QInt(50)]
      [] slot = "vco_2" -> [pitch |-> QInt(10), mod_depth |-> QInt(50),
                            shape |-> QZero]
      [] slot = "noise" -> [ratio |-> Q(1, 4)]
      [] slot = "vca" -> <<>>
      [] slot = "global_params" -> [vco_ratio |-> Q(1, 2)]

\* torch.rand_like: the outcomes tried; a draw fixes every parameter's value
RandomDraws ==
    {1, 2}

RandomValue(name, draw) ==
    CASE name = "attack" -> <<QZero, Q(3, 16)>>[draw]
      [] name = "decay" -> <<Q(1, 2), QZero>>[draw]
      [] name = "sustain" -> <<Q(3, 4), Q(1, 4)>>[draw]
      [] name = "release" -> <<Q(3, 16), Q(1, 2)>>[draw]
      [] name = "alpha" -> <<1, 2>>[draw]
      [] name = "pitch" -> <<QInt(69), QInt(57)>>[draw]
      [] name = "mod_depth" -> <<QInt(12), QZero>>[draw]
      [] name = "shape" -> <<Q(1, 2), QZero>>[draw]
      [] name = "ratio" -> <<QZero, Q(1, 2)>>[draw]
      [] name = "vco_ratio" -> <<Q(1, 4), Q(3, 4)>>[draw]

\* the module objects a drum refers to: its children and its global_params
DrumModules(k) ==
    {drums[k].slots[slot] : slot \in Slots} \cup {<<k, "global_params">>}

\* the note_on_duration of the drums tried
DrumDurations ==
    {QZero, Q(1, 2)}

DrumInit ==
    /\ modules = [id \in ModuleIds |->
                     [params |-> DefaultParams(id[2]), phase |-> AZero]]
    /\ drums = [k \in Drums |->
                   [made |-> FALSE, note_on_duration |-> QZero,
                    slots |-> [slot \in Slots |-> <<0, slot>>]]]
    /\ drum_call = [op |-> "none", target |-> 0, status |-> "none"]

\* the sub-modules TorchDrum.__init__ registers: the caller's own objects,
\* or the default values of its arguments
TorchDrum_slots(k, own) ==
    [slot \in Slots |-> IF own THEN <<k, slot>> ELSE <<0, slot>>]

\* TorchDrum.__init__ for drum k; own: the caller passes new module objects
TorchDrumInit(k, note_on_duration, own) ==
    /\ ~drums[k].made
    /\ drums' = [drums EXCEPT ![k] = [made |-> TRUE,
                                      note_on_duration |-> note_on_duration,
                                      slots |-> TorchDrum_slots(k, own)]]
    /\ drum_call' = [op |-> "__init__", target |-> k, status |-> "ok"]
    /\ UNCHANGED modules

\* TorchSynth.randomize
TorchSynthRandomize(k, draw) ==
    /\ drums[k].made
    /\ modules' = [id \in ModuleIds |->
                      IF id \in DrumModules(k)
                      THEN [modules[id] EXCEPT
                               !.params = [name \in DOMAIN modules[id].params |->
                                              RandomValue(name, draw)]]
                      ELSE modules[id]]
    /\ drum_call' = [op |-> "randomize", target |-> k, status |-> "ok"]
    /\ UNCHANGED drums

\* a slip: a short signal is not padded
fix_length_NoPad(signal, length) ==
    IF Len(signal) < length THEN signal ELSE SubSeq(signal, 1, length)

\* SynthModule.fix_length, util.fix_length
fix_length(signal, length) ==
    IF Len(signal) < length
    THEN signal \o [i \in 1..(length - Len(signal)) |-> QZero]
    ELSE SubSeq(signal, 1, length)

\* a TorchADSR module object as an envelope generator configuration
AsADSR(m) ==
    [impl |-> "torch", a |-> m.params.attack, d |-> m.params.decay,
     s |-> m.params.sustain, r |-> m.params.release,
     alpha |-> m.params.alpha, rate |-> SAMPLE_RATE]

\* a TorchVCO module object as an oscillator configuration
AsVCO(m) ==
    [impl |-> "torch", midi_f0 |-> m.params.pitch,
     mod_depth |-> m.params.mod_depth, phase |-> m.phase,
     sample_rate |-> SAMPLE_RATE, control_rate |-> SAMPLE_RATE]

\* TorchSynthModule.forward of a TorchADSR: _forward, then to_buffer_size
TorchADSR_forward(e, note_on_duration) ==
    LET ADS == TorchADSR_note_on(e, seconds_to_samples(e, note_on_duration))
    IN  fix_length(ADS \o TorchADSR_note_off(e, ADS[Len(ADS)]), BUFFER_SIZE)

\* TorchDrum.forward
TorchDrumForward(k) ==
    LET d == drums[k]
        pitch_adsr == AsADSR(modules[d.slots["pitch_adsr"]])
        pitch_envelope == TorchADSR_forward(pitch_adsr, d.note_on_duration)
        status == IF ~QLt(QZero, d.note_on_duration) THEN "AssertionError"
                  ELSE IF seconds_to_samples(pitch_adsr, d.note_on_duration) <= 0
                  THEN "IndexError"
                  ELSE "ok"
        LastPhase(id) ==
            LET argument == CosineArgument(AsVCO(modules[id]), pitch_envelope,
                                           AZero)
            IN  argument[Len(argument)]
    IN  /\ d.made
        /\ drum_call' = [op |-> "forward", target |-> k, status |-> status]
        /\ modules' = IF status = "ok"
                      THEN [id \in ModuleIds |->
                               IF id \in {d.slots["vco_1"], d.slots["vco_2"]}
                               THEN [modules[id] EXCEPT !.phase = LastPhase(id)]
                               ELSE modules[id]]
                      ELSE modules
        /\ UNCHANGED drums

DrumIdle ==
    DrumInit

(***************************************************************************)
(* The amplifier VCA (src/src/ddspdrum/module.py).                         *)
(***************************************************************************)
\* bounds of the calls tried: the lengths of the envelope and of the audio
MaxEnvLen == 2

MaxVCAAudioLen == 5

\* elements of an envelope: inside and outside [0, 1]
VCAEnvValues ==
    {QZero, Q(1, 2), QInt(2)}

\* elements of an audio buffer: inside and outside [-1, 1]
VCAAudioValues ==
    {QInt(-2), Q(1, 2)}

VCAEnvelopes ==
    UNION {[1..n -> VCAEnvValues] : n \in 0..MaxEnvLen}

VCAAudios ==
    UNION {[1..n -> VCAAudioValues] : n \in 0..MaxVCAAudioLen}

\* the rates SynthModule.__init__ gives a VCA
VCAModule ==
    [sample_rate |-> SAMPLE_RATE, control_rate |-> CONTROL_RATE]

\* np.clip applied to each element
ClipAll(xs, lo, hi) ==
    [i \in 1..Len(xs) |-> QClip(xs[i], lo, hi)]

NoVCARet ==
    [status |-> "none", envelopecontrol |-> <<>>, audiosample |-> <<>>,
     amp |-> <<>>, out |-> <<>>]

VCAIdle ==
    vca_ret = NoVCARet

\* VCA.__call__.  The resampling routine, which is not part of this
\* repository, is handed the envelope; given an empty one it may raise
VCACall(envelopecontrol, audiosample) ==
    LET amp == control_to_sample_rate(VCAModule, ClipAll(envelopecontrol,
                                                         QZero, QOne))
        signal == fix_length(ClipAll(audiosample, QInt(-1), QOne), Len(amp))
        ret == [NoVCARet EXCEPT !.envelopecontrol = envelopecontrol,
                                !.audiosample = audiosample]
        outcomes == IF envelopecontrol = <<>>
                       /\ VCAModule.control_rate # VCAModule.sample_rate
                    THEN {"ok", "ValueError"}
                    ELSE {"ok"}
    IN  /\ vca_ret.status = "none"
        /\ \E status \in outcomes :
               vca_ret' =
                   IF status = "ok"
                   THEN [ret EXCEPT !.status = "ok", !.amp = amp,
                                    !.out = [i \in 1..Len(signal) |->
                                                QMul(amp[i], signal[i])]]
                   ELSE [ret EXCEPT !.status = status]

(***************************************************************************)
(* FIR filters: FIR and MovingAverage (src/src/ddspdrum/module.py).        *)
(***************************************************************************)
\* bounds of the filter lengths and of the audio buffers tried
MaxFilterLength == 3

MaxFIRAudioLen == 3

FIRAudioValues ==
    {QInt(-1), QZero, QOne}

FIRAudios ==
    UNION {[1..n -> FIRAudioValues] : n \in 0..MaxFIRAudioLen}

\* FIR.windowed_sinc: the impulse response.  A tap is kept as the arguments
\* of its formula: n = i - filter_length / 2, omega in turns, and the window
\* argument i / filter_length, whose division fails for filter_length = 0
windowed_sinc(f, cutoff, filter_length) ==
    IF filter_length = 0
    THEN [status |-> "ZeroDivisionError", ir |-> <<>>]
    ELSE [status |-> "ok",
          ir |-> [k \in 1..(filter_length + 1) |->
                     [n |-> Q(2 * (k - 1) - filter_length, 2),
                      omega |-> QDiv(cutoff, QInt(f.sample_rate)),
                      window |-> Q(k - 1, filter_length)]]]

\* MovingAverage.__call__ line 433: np.ones(filter_length) / filter_length
\* (an empty array for filter_length = 0)
boxcar(filter_length) ==
    [k \in 1..filter_length |-> Q(1, filter_length)]

\* the products a[j] * v[k - j + 1] that np.convolve(a, v) sums up for the
\* k-th sample of the full linear convolution, as pairs in the order of j
ConvolveTerms(a, v, k) ==
    LET first == IF k > Len(v) THEN k - Len(v) + 1 ELSE 1
        last == IF k < Len(a) THEN k ELSE Len(a)
    IN  [t \in 1..(last - first + 1) |->
            <<a[first + t - 1], v[k - (first + t - 1) + 1]>>]

\* the length of np.convolve(a, v), mode "full"
ConvolveLength(a, v) ==
    Len(a) + Len(v) - 1

\* np.convolve(a, v) with symbolic sums, for non-empty a and v
convolve(a, v) ==
    [k \in 1..ConvolveLength(a, v) |-> ConvolveTerms(a, v, k)]

\* the sum of the products of a sequence of pairs of rationals
RECURSIVE SumOfProducts(_)
SumOfProducts(terms) ==
    IF terms = <<>> THEN QZero
    ELSE QAdd(SumOfProducts(SubSeq(terms, 1, Len(terms) - 1)),
              QMul(terms[Len(terms)][1], terms[Len(terms)][2]))

NoFIRRet ==
    [status |-> "none", audio |-> <<>>, impulse |-> <<>>, y |-> <<>>]

FIRIdle ==
    /\ fir = [kind |-> "FIR", cutoff |-> QInt(2), filter_length |-> 1,
              sample_rate |-> SAMPLE_RATE]
    /\ fir_ret = NoFIRRet

\* the state after FIR.__init__ or MovingAverage.__init__; the cutoff is kept
\* in the MovingAverage record too, where nothing reads it
FIRInit ==
    /\ \E kind \in {"FIR", "MovingAverage"},
          filter_length \in 0..MaxFilterLength :
           fir = [kind |-> kind, cutoff |-> Q(SAMPLE_RATE, 4),
                  filter_length |-> filter_length, sample_rate |-> SAMPLE_RATE]
    /\ fir_ret = NoFIRRet

\* FIR.__call__ and MovingAverage.__call__.  np.convolve raises ValueError
\* when one of its arguments is empty
FIRCall(audio) ==
    LET made == IF fir.kind = "FIR"
                THEN windowed_sinc(fir, fir.cutoff, fir.filter_length)
                ELSE [status |-> "ok", ir |-> boxcar(fir.filter_length)]
        impulse == made.ir
        ret == [NoFIRRet EXCEPT !.audio = audio, !.impulse = impulse]
    IN  /\ fir_ret.status = "none"
        /\ fir_ret' =
               IF made.status # "ok" THEN [ret EXCEPT !.status = made.status]
               ELSE IF audio = <<>> \/ impulse = <<>>
               THEN [ret EXCEPT !.status = "ValueError"]
               ELSE [ret EXCEPT
                        !.status = "ok",
                        !.y = IF fir.kind = "FIR" THEN convolve(audio, impulse)
                              ELSE [k \in 1..ConvolveLength(audio, impulse) |->
                                       SumOfProducts(
                                           ConvolveTerms(audio, impulse, k))]]
        /\ UNCHANGED fir

(***************************************************************************)
(* TorchSynthModule.forward (src/torchsynth/module.py), on a TorchADSR and *)
(* on a TorchSineVCO.  util.fix_length is taken to be the fix_length of    *)
(* SynthModule.                                                            *)
(***************************************************************************)
\* buffer_size of the modules tried: the default and a shorter one
BufferSizes ==
    {BUFFER_SIZE \div 2, BUFFER_SIZE}

\* a slip: the result of _forward is returned as it is
to_buffer_size_Identity(m, signal) ==
    signal

\* TorchSynthModule.to_buffer_size
to_buffer_size(m, signal) ==
    fix_length(signal, m.buffer_size)

NoForwardRet ==
    [status |-> "none", raw |-> <<>>, out |-> <<>>]

ForwardIdle ==
    /\ tmod = [kind |-> "TorchADSR", buffer_size |-> BUFFER_SIZE,
               config |-> [impl |-> "torch", a |-> QZero, d |-> QZero,
                           s |-> QZero, r |-> QZero, alpha |-> 1,
                           rate |-> SAMPLE_RATE]]
    /\ fwd_ret = NoForwardRet

\* the state after TorchADSR.__init__ or TorchSineVCO.__init__
ForwardInit ==
    /\ \E buffer_size \in BufferSizes :
           \/ \E a \in ADSRDurations, d \in ADSRDurations, r \in ADSRDurations,
                 s \in ADSRLevels :
                  tmod = [kind |-> "TorchADSR", buffer_size |-> buffer_size,
                          config |-> [impl |-> "torch", a |-> a, d |-> d,
                                      s |-> s, r |-> r, alpha |-> 1,
                                      rate |-> SAMPLE_RATE]]
           \/ \E depth \in {QOne, QInt(12)} :
                  tmod = [kind |-> "TorchSineVCO", buffer_size |-> buffer_size,
                          config |-> [impl |-> "torch", midi_f0 |-> QInt(69),
                                      mod_depth |-> depth, phase |-> AZero,
                                      sample_rate |-> SAMPLE_RATE,
                                      control_rate |-> SAMPLE_RATE]]
    /\ fwd_ret = NoForwardRet

\* TorchSynthModule.forward on a TorchADSR: TorchADSR._forward, then
\* to_buffer_size
ForwardTorchADSR(note_on_duration) ==
    LET e == tmod.config
        ADS == TorchADSR_note_on(e, seconds_to_samples(e, note_on_duration))
        raw == ADS \o TorchADSR_note_off(e, ADS[Len(ADS)])
    IN  /\ tmod.kind = "TorchADSR"
        /\ fwd_ret.status = "none"
        /\ fwd_ret' =
               IF ~QLt(QZero, note_on_duration)
               THEN [NoForwardRet EXCEPT !.status = "AssertionError"]
               ELSE IF ADS = <<>>
               THEN [NoForwardRet EXCEPT !.status = "IndexError"]
               ELSE [status |-> "ok", raw |-> raw,
                     out |-> to_buffer_size(tmod, raw)]
        /\ UNCHANGED tmod

\* TorchSynthModule.forward on a TorchSineVCO with the default phase
\* argument: TorchVCO._forward, then to_buffer_size
ForwardTorchVCO(mod_signal) ==
    LET argument == CosineArgument(tmod.config, mod_signal, AZero)
        raw == Oscillator(argument)
    IN  /\ tmod.kind = "TorchSineVCO"
        /\ fwd_ret.status = "none"
        /\ IF ~ModInRange(tmod.config, mod_signal)
           THEN /\ fwd_ret' = [NoForwardRet EXCEPT !.status = "AssertionError"]
                /\ UNCHANGED tmod
           ELSE IF argument = <<>>
           THEN /\ fwd_ret' = [NoForwardRet EXCEPT !.status = "IndexError"]
                /\ UNCHANGED tmod
           ELSE /\ fwd_ret' = [status |-> "ok", raw |-> raw,
                               out |-> to_buffer_size(tmod, raw)]
                /\ tmod' = [tmod EXCEPT
                               !.config.phase = LastArgument(argument)]

(***************************************************************************)
(* Specifications, one for each component.                                 *)
(***************************************************************************)
OnlyParam ==
    UNCHANGED <<vcoVars, adsrVars, svfVars, drumVars, vcaVars, firVars,
                forwardVars>>

OnlyVCO ==
    UNCHANGED <<paramVars, adsrVars, svfVars, drumVars, vcaVars, firVars,
                forwardVars>>

OnlyADSR ==
    UNCHANGED <<paramVars, vcoVars, svfVars, drumVars, vcaVars, firVars,
                forwardVars>>

OnlySVF ==
    UNCHANGED <<paramVars, vcoVars, adsrVars, drumVars, vcaVars, firVars,
                forwardVars>>

OnlyDrum ==
    UNCHANGED <<paramVars, vcoVars, adsrVars, svfVars, vcaVars, firVars,
                forwardVars>>

OnlyVCA ==
    UNCHANGED <<paramVars, vcoVars, adsrVars, svfVars, drumVars, firVars,
                forwardVars>>

ParamInit ==
    ParamIdle /\ VCOIdle /\ ADSRIdle /\ SVFIdle /\ DrumIdle /\ VCAIdle /\
    FIRIdle /\ ForwardIdle

ParamNext ==
    \/ \E v \in ParamValues, lo \in ParamBounds, hi \in ParamBounds,
          sc \in ParamScales : ParameterInit(v, lo, hi, sc) /\ OnlyParam
    \/ \E v \in ParamValues : set_value(v) /\ OnlyParam
    \/ \E u \in ParamUnitValues \cup ParamReturned :
           set_value_0to1(u) /\ OnlyParam
    \/ get_value_0to1 /\ OnlyParam

SpecParam ==
    ParamInit /\ [][ParamNext]_vars

VCOSpecInit ==
    ParamIdle /\ VCOInit /\ ADSRIdle /\ SVFIdle /\ DrumIdle /\ VCAIdle /\
    FIRIdle /\ ForwardIdle

VCONext ==
    \E mod_signal \in ModSignals, phase \in PhaseArguments(vco) :
        VCOCall(mod_signal, phase) /\ OnlyVCO

SpecVCO ==
    VCOSpecInit /\ [][VCONext]_vars

ADSRSpecInit ==
    ParamIdle /\ VCOIdle /\ ADSRInit /\ SVFIdle /\ DrumIdle /\ VCAIdle /\
    FIRIdle /\ ForwardIdle

ADSRNext ==
    \/ \E sustain_duration \in ArgDurations :
           ADSRCall(sustain_duration) /\ OnlyADSR
    \/ \E duration \in ArgDurations : ADSRSustainCall(duration) /\ OnlyADSR
    \/ \E duration \in ArgDurations : ADSRRampCall(duration) /\ OnlyADSR
    \/ \E note_on_duration \in ArgDurations :
           TorchADSRForward(note_on_duration) /\ OnlyADSR

SpecADSR ==
    ADSRSpecInit /\ [][ADSRNext]_vars

SVFSpecInit ==
    ParamIdle /\ VCOIdle /\ ADSRIdle /\ SVFInit /\ DrumIdle /\ VCAIdle /\
    FIRIdle /\ ForwardIdle

SVFNext ==
    \E audio \in SVFAudios, cutoff_mod \in SVFCutoffMods,
       cutoff_mod_amount \in SVFAmounts :
        SVFCall(audio, cutoff_mod, cutoff_mod_amount, 1) /\ OnlySVF

SpecSVF ==
    SVFSpecInit /\ [][SVFNext]_vars

\* a sequence of calls on one filter
SVFSeqNext ==
    \E probe \in SVFProbes :
        SVFCall(probe[1], probe[2], probe[3], MaxSVFCalls) /\ OnlySVF

SpecSVFSeq ==
    SVFSpecInit /\ [][SVFSeqNext]_vars

DrumSpecInit ==
    ParamIdle /\ VCOIdle /\ ADSRIdle /\ SVFIdle /\ DrumInit /\ VCAIdle /\
    FIRIdle /\ ForwardIdle

DrumNext ==
    \/ \E k \in Drums, note_on_duration \in DrumDurations, own \in BOOLEAN :
           TorchDrumInit(k, note_on_duration, own) /\ OnlyDrum
    \/ \E k \in Drums, draw \in RandomDraws :
           TorchSynthRandomize(k, draw) /\ OnlyDrum
    \/ \E k \in Drums : TorchDrumForward(k) /\ OnlyDrum

SpecDrum ==
    DrumSpecInit /\ [][DrumNext]_vars

VCASpecInit ==
    ParamIdle /\ VCOIdle /\ ADSRIdle /\ SVFIdle /\ DrumIdle /\ VCAIdle /\
    FIRIdle /\ ForwardIdle

VCANext ==
    \E envelopecontrol \in VCAEnvelopes, audiosample \in VCAAudios :
        VCACall(envelopecontrol, audiosample) /\ OnlyVCA

SpecVCA ==
    VCASpecInit /\ [][VCANext]_vars

OnlyFIR ==
    UNCHANGED <<paramVars, vcoVars, adsrVars, svfVars, drumVars, vcaVars,
                forwardVars>>

FIRSpecInit ==
    ParamIdle /\ VCOIdle /\ ADSRIdle /\ SVFIdle /\ DrumIdle /\ VCAIdle /\
    FIRInit /\ ForwardIdle

FIRNext ==
    \E audio \in FIRAudios : FIRCall(audio) /\ OnlyFIR

SpecFIR ==
    FIRSpecInit /\ [][FIRNext]_vars

OnlyForward ==
    UNCHANGED <<paramVars, vcoVars, adsrVars, svfVars, drumVars, vcaVars,
                firVars>>

ForwardSpecInit ==
    ParamIdle /\ VCOIdle /\ ADSRIdle /\ SVFIdle /\ DrumIdle /\ VCAIdle /\
    FIRIdle /\ ForwardInit

ForwardNext ==
    \/ \E note_on_duration \in ArgDurations :
           ForwardTorchADSR(note_on_duration) /\ OnlyForward
    \/ \E mod_signal \in ModSignals :
           ForwardTorchVCO(mod_signal) /\ OnlyForward

SpecForward ==
    ForwardSpecInit /\ [][ForwardNext]_vars

(***************************************************************************)
(* Properties of Parameter, checked under SpecParam.                       *)
(***************************************************************************)
\* C1: a Parameter made with minimum <= maximum and scale > 0 has
\* minimum <= value <= maximum after __init__ and after every sequence of
\* set_value and set_value_0to1 calls, whatever their arguments
C1_ValueInRange ==
    (param_made /\ QLe(param.minimum, param.maximum) /\ QLt(QZero, param.scale))
        => (QLe(param.minimum, param.value) /\ QLe(param.value, param.maximum))

\* C18: constructing a Parameter with minimum > maximum or scale <= 0 fails
\* and creates no parameter, so every parameter there is has
\* minimum <= maximum and scale > 0
C18_InvalidRangeRejected ==
    param_made => (QLe(param.minimum, param.maximum) /\ QLt(QZero, param.scale))

\* C16 as stated: for minimum < maximum, scale = 1 and a value v inside the
\* range, set_value_0to1(get_value_0to1()) leaves the value equal to v
C16_RoundTripExact ==
    (/\ param_call.round_trip
     /\ QLt(param.minimum, param.maximum) /\ param.scale = QOne
     /\ QLe(param.minimum, param_call.origin)
     /\ QLe(param_call.origin, param.maximum))
        => param.value = param_call.origin

\* C16 within floating tolerance: under the same conditions the value after
\* set_value_0to1(get_value_0to1()) differs from v by at most four units of
\* rounding error, 4 * 2^-FloatBits, of |v - minimum| + |v|
C16_RoundTripWithinTolerance ==
    (/\ param_call.round_trip
     /\ QLt(param.minimum, param.maximum) /\ param.scale = QOne
     /\ QLe(param.minimum, param_call.origin)
     /\ QLe(param_call.origin, param.maximum))
        => LET v == param_call.origin
               error == QSub(param.value, v)
               size == QAdd(QSub(v, param.minimum),
                            IF QLt(v, QZero) THEN QSub(QZero, v) ELSE v)
               tolerance == QMul(QPow2(2 - FloatBits), size)
           IN  QLe(QSub(QZero, tolerance), error) /\ QLe(error, tolerance)

\* a round trip that does not give the value back exactly
C16_Witness ==
    /\ param_call.round_trip
    /\ QLt(param.minimum, param.maximum) /\ param.scale = QOne
    /\ QLt(param.minimum, param_call.origin)
    /\ QLt(param_call.origin, param.maximum)
    /\ param.value # param_call.origin

C7_EmptyModulationIsValid ==
    (vco_call.work > 0 /\ vco_call.mod_signal = <<>>)
        => /\ vco_ret.status = "ok"
           /\ vco_ret.audio = <<>>
           /\ vco.phase = vco_call.phase_before

\* C19: the stored phase changes only when a call succeeds: after any
\* sequence of calls it is the last phase argument of the most recent
\* successful call, or the phase given at construction if no call has
\* succeeded, and a failed call leaves it as it was before that call
C19_PhaseOfLastSuccess ==
    LET log == vco_call.log
        oks == {i \in 1..Len(log) : log[i].status = "ok"}
        latest == CHOOSE i \in oks : \A j \in oks : j <= i
    IN  /\ vco.phase = IF oks = {} THEN vco_call.phase_init
                       ELSE log[latest].final
        /\ vco_ret.status \notin {"none", "ok"}
               => vco.phase = vco_call.phase_before

\* an oscillator constructed with a non-zero phase, a successful call that
\* stored another phase, then a failed call: the phase of the successful
\* call is still stored
C19_Witness ==
    LET log == vco_call.log
    IN  /\ Len(log) = 2
        /\ log[1].status = "ok"
        /\ log[2].status # "ok"
        /\ vco_call.phase_init # AZero
        /\ log[1].final # vco_call.phase_init
        /\ vco.phase = log[1].final

\* C14: for an oscillator configured with sample rate R, an all-zero
\* modulation signal yields phase arguments that grow by the same increment
\* at every sample, hz(midi_f0) / R turns (2 pi hz(midi_f0) / R radians)
C14_StationaryAtConfiguredRate ==
    (vco_ret.status = "ok"
         /\ \A i \in 1..Len(vco_call.mod_signal) : vco_call.mod_signal[i] = QZero)
        => LET inc == AScale(Q(1, vco.sample_rate), midi_to_hz(vco.midi_f0))
               arg == vco_ret.cosine_argument
           IN  /\ arg[1] = AAdd(vco_call.phase, inc)
               /\ \A i \in 2..Len(arg) : arg[i] = AAdd(arg[i - 1], inc)

C4_NoteOnLength ==
    (adsr_ret.op = "_forward" /\ QLt(QZero, adsr_ret.arg))
        => LET n == QRound(QMul(adsr_ret.arg, QInt(adsr.rate)))
               AD == TorchADSR_attack(adsr) \o TorchADSR_decay(adsr)
           IN  /\ Len(adsr_ret.ADS) = n
               /\ \A i \in 1..n :
                      adsr_ret.ADS[i] = IF i <= Len(AD) THEN AD[i] ELSE adsr.s

\* a = d = 0.5 s held for 0.75 s: the whole attack and half of the decay
C4_Witness ==
    /\ adsr_ret.op = "_forward"
    /\ adsr_ret.status = "ok"
    /\ adsr.a = Q(1, 2)
    /\ adsr.d = Q(1, 2)
    /\ adsr_ret.arg = Q(3, 4)
    /\ 4 * Len(adsr_ret.ADS) = 3 * adsr.rate
    /\ 2 * (Len(adsr_ret.ADS) - Len(TorchADSR_attack(adsr)))
           = Len(TorchADSR_decay(adsr))

C8_SustainLength ==
    adsr_ret.op = "sustain"
        => /\ Len(adsr_ret.env)
                  = QRound(QMul(adsr_ret.arg, QInt(CONTROL_RATE)))
           /\ \A i \in 1..Len(adsr_ret.env) : adsr_ret.env[i] = adsr.s

\* C9 as stated: the ramp of duration T at rate Rc has floor(T * Rc)
\* samples, sample i (from 0) is (i / (T * Rc))^alpha, it is non-decreasing,
\* starts at 0 and never reaches 1
C9_RampFloor ==
    adsr_ret.op = "_ramp"
        => LET x == QMul(adsr_ret.arg, QInt(adsr.rate))
               n == QFloor(x)
               ramp == adsr_ret.env
           IN  /\ Len(ramp) = n
               /\ \A i \in 1..n :
                      ramp[i] = QPow(QDiv(QInt(i - 1), x), adsr.alpha)
               /\ \A i \in 2..n : QLe(ramp[i - 1], ramp[i])
               /\ n > 0 => ramp[1] = QZero
               /\ \A i \in 1..n : ramp[i] # QOne

\* C9 as the code has it: the ramp has n = round(T * Rc) samples (half to
\* even); sample i (from 0) is (i / n)^alpha in ADSR and (i / (T * Rc))^alpha
\* in TorchADSR; it is non-decreasing, and for alpha > 0 it starts at 0 and
\* stays below 1 (for alpha = 0 every sample is 1)
C9_RampRound ==
    adsr_ret.op = "_ramp"
        => LET x == QMul(adsr_ret.arg, QInt(adsr.rate))
               n == QRound(x)
               ramp == adsr_ret.env
           IN  /\ Len(ramp) = n
               /\ \A i \in 1..n :
                      ramp[i] = QPow(QDiv(QInt(i - 1),
                                          IF adsr.impl = "np" THEN QInt(n) ELSE x),
                                     adsr.alpha)
               /\ \A i \in 2..n : QLe(ramp[i - 1], ramp[i])
               /\ adsr.alpha > 0
                      => /\ n > 0 => ramp[1] = QZero
                         /\ \A i \in 1..n : QLt(ramp[i], QOne)
               /\ adsr.alpha = 0 => \A i \in 1..n : ramp[i] = QOne

\* a ramp whose length is rounded up: longer than floor(T * Rc)
C9_Witness ==
    /\ adsr_ret.op = "_ramp"
    /\ Len(adsr_ret.env) >= 2
    /\ Len(adsr_ret.env) > QFloor(QMul(adsr_ret.arg, QInt(adsr.rate)))
    /\ adsr.alpha > 0

\* C10: for sustain_duration >= 0, ADSR.__call__ returns the attack, the
\* decay, sustain(sustain_duration) and the release, in this order, so its
\* length is the sum of the four lengths; for sustain_duration < 0 it fails
\* and returns no envelope
C10_FixedDuration ==
    adsr_ret.op = "__call__"
        => IF QLe(QZero, adsr_ret.arg)
           THEN /\ adsr_ret.status = "ok"
                /\ adsr_ret.env
                       = ADSR_attack(adsr) \o ADSR_decay(adsr)
                             \o ADSR_sustain(adsr, adsr_ret.arg)
                             \o ADSR_release(adsr)
                /\ Len(adsr_ret.env)
                       = Len(ADSR_ramp(adsr, adsr.a)) + Len(ADSR_ramp(adsr, adsr.d))
                             + Len(ADSR_sustain(adsr, adsr_ret.arg))
                             + Len(ADSR_ramp(adsr, adsr.r))
           ELSE /\ adsr_ret.status = "AssertionError"
                /\ adsr_ret.env = <<>>

\* no attack or decay, a sustain of 1 s and a release of 0.5 s: 1.5 s
C10_Witness ==
    /\ adsr_ret.op = "__call__"
    /\ adsr_ret.status = "ok"
    /\ adsr.a = QZero
    /\ adsr.d = QZero
    /\ adsr.r = Q(1, 2)
    /\ adsr_ret.arg = QOne
    /\ 2 * Len(adsr_ret.env) = 3 * CONTROL_RATE

\* C21: TorchADSR._forward succeeds for every note_on_duration > 0, also one
\* so short that it rounds to 0 samples: the attack-decay-sustain part has a
\* last value and the envelope, that part followed by the release, is returned
C21_ShortNoteSucceeds ==
    (adsr_ret.op = "_forward" /\ QLt(QZero, adsr_ret.arg))
        => /\ adsr_ret.status = "ok"
           /\ adsr_ret.ADS # <<>>
           /\ adsr_ret.env = adsr_ret.ADS \o adsr_ret.R

\* C11: every sample of every envelope ADSR.__call__ and TorchADSR._forward
\* return lies in [0, 1], for every a, d, r >= 0, s in [0, 1] and every
\* argument, a = d = r = 0 with a sustain of 0 s included
C11_EnvelopeInUnitRange ==
    (adsr_ret.op \in {"__call__", "_forward"} /\ adsr_ret.status = "ok")
        => \A i \in 1..Len(adsr_ret.env) :
               QLe(QZero, adsr_ret.env[i]) /\ QLe(adsr_ret.env[i], QOne)

\* an envelope of a TorchADSR that touches both ends of the range: the
\* attack starts at 0 and the decay starts at 1
C11_Witness ==
    /\ adsr_ret.op = "_forward"
    /\ adsr_ret.status = "ok"
    /\ QLt(adsr.s, QOne)
    /\ adsr_ret.env[1] = QZero
    /\ \E i \in 2..Len(adsr_ret.env) : adsr_ret.env[i] = QOne

(***************************************************************************)
(* Properties of the filter, checked under SpecSVF.                        *)
(***************************************************************************)
\* C6 as stated: a call with a cutoff modulation whose length differs from
\* the audio's fails, whatever the modulation amount (0 included), and
\* returns no output
C6_MismatchAlwaysFails ==
    (svf_ret.status # "none" /\ svf_ret.cutoff_mod.given
         /\ Len(svf_ret.cutoff_mod.seq) # Len(svf_ret.audio))
        => (svf_ret.status = "AssertionError" /\ svf_ret.y = <<>>)

\* C6 as the code has it: such a call fails and returns no output when the
\* modulation amount is not 0; when the amount is 0 the modulation is
\* ignored, its length included, and the call returns the output it
\* returns without a modulation
C6_MismatchFailsForNonZeroAmount ==
    (svf_ret.status # "none" /\ svf_ret.cutoff_mod.given
         /\ Len(svf_ret.cutoff_mod.seq) # Len(svf_ret.audio))
        => IF svf_ret.cutoff_mod_amount # QZero
           THEN svf_ret.status = "AssertionError" /\ svf_ret.y = <<>>
           ELSE /\ svf_ret.status = "ok"
                /\ Len(svf_ret.y) = Len(svf_ret.audio)
                /\ svf_ret.y = SVF_loop(svf, svf_ret.audio,
                                        [given |-> FALSE, seq |-> <<>>], QZero,
                                        1, <<QZero, QZero>>, <<>>)

\* a call with amount 0 and a modulation shorter than the audio
C6_Witness ==
    /\ svf_ret.status = "ok"
    /\ svf_ret.cutoff_mod.given
    /\ svf_ret.cutoff_mod_amount = QZero
    /\ Len(svf_ret.cutoff_mod.seq) < Len(svf_ret.audio)
    /\ Len(svf_ret.y) = Len(svf_ret.audio)

(***************************************************************************)
(* Properties of TorchDrum, checked under SpecDrum.                        *)
(***************************************************************************)
\* the mutable state of drum k: the parameters and the phase of each of
\* its modules
DrumState(k) ==
    [id \in DrumModules(k) |-> modules[id]]

\* C3: an operation on one TorchDrum never changes a parameter value or an
\* oscillator phase of another TorchDrum, and within one TorchDrum no two
\* modules are the same object
C3_DisjointState ==
    /\ [](\A k \in Drums :
              drums[k].made
                  => \A s1 \in Slots, s2 \in Slots :
                         (s1 # s2) => drums[k].slots[s1] # drums[k].slots[s2])
    /\ [][\A k \in Drums :
              (drums[k].made /\ drum_call'.target # k)
                  => DrumState(k)' = DrumState(k)]_vars

C15_NoStateAcrossCalls ==
    /\ \A i \in 1..Len(svf_log) :
           svf_log[i].status = "ok"
               => svf_log[i].y = SVF_loop(svf, svf_log[i].audio,
                                          svf_log[i].cutoff_mod,
                                          svf_log[i].cutoff_mod_amount, 1,
                                          <<QZero, QZero>>, <<>>)
    /\ \A i, j \in 1..Len(svf_log) :
           (/\ svf_log[i].audio = svf_log[j].audio
            /\ svf_log[i].cutoff_mod = svf_log[j].cutoff_mod
            /\ svf_log[i].cutoff_mod_amount = svf_log[j].cutoff_mod_amount)
               => (svf_log[i].status = svf_log[j].status
                       /\ svf_log[i].y = svf_log[j].y)

\* the same call made twice with another call in between, each of the calls
\* ending with non-zero feedback samples, and the same non-zero output twice
C15_Witness ==
    /\ Len(svf_log) = 3
    /\ svf_log[1].audio = svf_log[3].audio
    /\ svf_log[1].cutoff_mod = svf_log[3].cutoff_mod
    /\ svf_log[1].cutoff_mod_amount = svf_log[3].cutoff_mod_amount
    /\ svf_log[2].audio # svf_log[1].audio
    /\ \A i \in 1..3 : svf_log[i].status = "ok"
                           /\ svf_log[i].h # <<QZero, QZero>>
    /\ svf_log[1].y # <<QZero>>
    /\ svf_log[1].y # <<QZero, QZero>>
    /\ svf_log[3].y = svf_log[1].y

(***************************************************************************)
(* Properties of the FIR filters, checked under SpecFIR.                   *)
(***************************************************************************)
\* C17: for every audio buffer, a FIR of filter_length L convolves it with
\* an impulse response of L + 1 taps into an output of len(audio) + L
\* samples, and a MovingAverage convolves it with its filter_length taps of
\* 1 / filter_length in the same full linear convolution
C17_FullConvolution ==
    fir_ret.status # "none"
        => /\ fir_ret.status = "ok"
           /\ Len(fir_ret.impulse) = IF fir.kind = "FIR"
                                     THEN fir.filter_length + 1
                                     ELSE fir.filter_length
           /\ Len(fir_ret.y) = Len(fir_ret.audio) + Len(fir_ret.impulse) - 1
           /\ \A k \in 1..Len(fir_ret.y) :
                  LET terms == ConvolveTerms(fir_ret.audio, fir_ret.impulse, k)
                  IN  fir_ret.y[k] = IF fir.kind = "FIR" THEN terms
                                     ELSE SumOfProducts(terms)

(***************************************************************************)
(* Properties of TorchSynthModule.forward, checked under SpecForward.      *)
(***************************************************************************)
\* C20: forward returns exactly buffer_size samples whatever the length of
\* what _forward returned: its first buffer_size samples unchanged, followed
\* by zeros when it is shorter
C20_ForwardBufferSize ==
    fwd_ret.status = "ok"
        => /\ Len(fwd_ret.out) = tmod.buffer_size
           /\ \A i \in 1..tmod.buffer_size :
                  IF i <= Len(fwd_ret.raw)
                  THEN fwd_ret.out[i] = fwd_ret.raw[i]
                  ELSE fwd_ret.out[i] = QZero

\* an oscillator whose _forward returned fewer samples than buffer_size: the
\* result ends with zeros
C20_Witness ==
    /\ fwd_ret.status = "ok"
    /\ tmod.kind = "TorchSineVCO"
    /\ Len(fwd_ret.raw) > 0
    /\ Len(fwd_ret.raw) < tmod.buffer_size
    /\ fwd_ret.out[1] = fwd_ret.raw[1]
    /\ fwd_ret.out[tmod.buffer_size] = QZero

=============================================================================
